---- MODULE Spec2Model ----
(***************************************************************************)
(* A model of the SDG geometry solver (src/solver_sdg.py) and of the       *)
(* validation pipeline (src/validation_pipeline.py).                       *)
(*                                                                         *)
(* Part I models run_validation and atomic_write_provenance over a small   *)
(* POSIX file system (paths, inodes, file descriptors with offsets).       *)
(* Part II models the numeric pipeline with exact rational arithmetic      *)
(* extended by the IEEE special values NaN, +Inf and -Inf.                 *)
(***************************************************************************)
EXTENDS Integers, Sequences, FiniteSets, Bags, TLC

VARIABLES
    \* ---- Part I: validation pipeline ----
    archive,      \* the HDF5 archive rho_history_<job>.h5 of the job
    inodes,       \* inode number -> file content (a sequence of chunks)
    tempIno,      \* inode the path prov_path + ".tmp" names (0: no such file)
    finalIno,     \* inode the path prov_path names (0: no such file)
    pc,           \* per caller: position inside run_validation
    output_data,  \* per caller: the dict output_data
    fd,           \* per caller: inode of the open file object f (0: closed)
    offset,       \* per caller: file position of f
    site,         \* per caller: which call of atomic_write_provenance runs
    trace,        \* per caller: what the call has computed and written so far
    calls,        \* per caller: calls of run_validation started
    \* ---- Part II: geometry solver ----
    stage,        \* position in the per-step pipeline
    Psi,          \* the complex field, a grid
    params,       \* sdg_kappa, sdg_eta, spatial_res, alpha, rho_vac, epsilon
    T_info,       \* T_info[0, 0], the only populated component, a grid
    rho_s,        \* the persistent density (warm start), a scaled grid
    x,            \* the iterate of _jacobi_poisson_solver, a scaled grid
    source,       \* the source of _jacobi_poisson_solver, over x's denominator
    sweeps,       \* relaxation sweeps done in the current call
    g_mu_nu,      \* the metric returned by solve_sdg_geometry
    work,         \* intermediate arrays of the last call, kept for inspection
    increment,    \* what apply_complex_diffusion returned
    steps         \* pipeline steps completed

valVars == <<archive, inodes, tempIno, finalIno, pc, output_data, fd, offset,
             site, trace, calls>>

numVars == <<stage, Psi, params, T_info, rho_s, x, source, sweeps, g_mu_nu,
             work, increment, steps>>

vars == <<valVars, numVars>>

\* the solver is not running (Part I)
NumIdle ==
    /\ stage = "off"
    /\ Psi = <<>>
    /\ params = <<>>
    /\ T_info = <<>>
    /\ rho_s = <<>>
    /\ x = <<>>
    /\ source = <<>>
    /\ sweeps = 0
    /\ g_mu_nu = <<>>
    /\ work = <<>>
    /\ increment = <<>>
    /\ steps = 0

(***************************************************************************)
(* Part I.  validation_pipeline.py                                         *)
(***************************************************************************)

\* settings (fallback class, validation_pipeline.py lines 23-29)
SENTINEL_FAILURE == 999
SENTINEL_DIVERGENCE == 1002
SSE_METRIC_KEY == "log_prime_sse"
STABILITY_METRIC_KEY == "h_norm"

\* the penalty written on divergence and the magnitude threshold
MaxPenalty == 1000
DivergenceThreshold == 1000000

\* Bounds of the model.
MaxCells == 2      \* cells of the stored field 'final_psi'
RecChunks == 2     \* write(2) calls one json.dump of a record may take
MaxCalls == 2      \* sequential calls of run_validation per caller

Callers == {1, 2}

\* |psi| of one stored cell: a finite magnitude, NaN or infinity.
Finite(n) == [k |-> "fin", v |-> n]
NaN == [k |-> "nan", v |-> 0]
PInf == [k |-> "pinf", v |-> 0]
NInf == [k |-> "ninf", v |-> 0]

PsiValues == {Finite(0), Finite(1), Finite(1000), Finite(1001), NaN, PInf}

RECURSIVE SeqsUpTo(_, _)
SeqsUpTo(S, n) ==
    IF n = 0 THEN {<<>>}
    ELSE LET shorter == SeqsUpTo(S, n - 1)
         IN shorter \cup {Append(s, v) : s \in {t \in shorter : Len(t) = n - 1}, v \in S}

\* What the archive of a job can be.  exists: os.path.exists(h5_path);
\* opens: h5py.File succeeds; has_psi: 'final_psi' in f; psi: the stored
\* magnitudes, flattened; cube: the field is a 3-D cube, as extract_rays
\* indexes it; has_g: 'final_g_mu_nu' in f.
ArchiveOf(exists, opens, has_psi, psi, cube, has_g) ==
    [exists |-> exists, opens |-> opens, has_psi |-> has_psi, psi |-> psi,
     cube |-> cube, has_g |-> has_g]

Archives ==
    {ArchiveOf(FALSE, FALSE, FALSE, <<>>, FALSE, FALSE),
     ArchiveOf(TRUE, FALSE, FALSE, <<>>, FALSE, FALSE),
     ArchiveOf(TRUE, TRUE, FALSE, <<>>, FALSE, TRUE)}
    \cup {ArchiveOf(TRUE, TRUE, TRUE, s, c, g) :
            s \in SeqsUpTo(PsiValues, MaxCells), c \in BOOLEAN, g \in BOOLEAN}

\* rho = np.abs(psi)**2 (line 131), cell by cell.
AbsSquared(v) ==
    IF v.k = "fin" THEN Finite(v.v * v.v) ELSE v

Rho(psi) == [i \in 1..Len(psi) |-> AbsSquared(psi[i])]

\* np.isnan(rho).any()
AnyNaNUnchecked(rho) == FALSE

AnyNaN(rho) == \E i \in 1..Len(rho) : rho[i] = NaN

\* np.max(rho) of a non-empty rho: NaN when a cell is NaN, else the largest
\* cell (rho has no negative cell).
NpMax(rho) ==
    IF \E i \in 1..Len(rho) : rho[i] = NaN THEN NaN
    ELSE IF \E i \in 1..Len(rho) : rho[i] = PInf THEN PInf
    ELSE CHOOSE m \in {rho[i] : i \in 1..Len(rho)} :
            \A i \in 1..Len(rho) : rho[i].v <= m.v

\* v > limit for a float v: false for NaN
GreaterThan(v, limit) == v = PInf \/ (v.k = "fin" /\ v.v > limit)

\* the condition of line 134
Diverged(rho) == AnyNaN(rho) \/ GreaterThan(NpMax(rho), DivergenceThreshold)

\* The floats analyze_spectral_fidelity and np.var return are not modelled;
\* these two numbers stand for them in the record.
SseValue == 7
VarValue == 3

\* output_data as constructed at lines 114-119; error and traceback are
\* the keys the handler adds, FALSE while the key is absent.  metrics is a
\* mapping whose domain is the set of keys present.
NoMetrics == [k \in {} |-> 0]

SetMetric(m, key, value) ==
    [k \in DOMAIN m \cup {key} |-> IF k = key THEN value ELSE m[k]]

FreshOutput ==
    [metrics |-> NoMetrics,
     sentinel_code |-> 0,
     validation_status |-> "PASS",
     error |-> FALSE,
     traceback |-> FALSE]

FreshTrace == [writes |-> 0, hnorm |-> FALSE, sse |-> FALSE, raised |-> "none"]

\* ---- the file system ----
Inos == 1..(Cardinality(Callers) + 2)

Chunk(rec, i) == [rec |-> rec, idx |-> i]

\* Records of earlier runs: the one an earlier call left at the final path,
\* and the first chunk of one a killed writer left at the temp path.
OldRecord == [FreshOutput EXCEPT !.metrics = SetMetric(NoMetrics, SSE_METRIC_KEY, 0)]
StaleChunk == Chunk(OldRecord, 1)
Hole == Chunk(FreshOutput, 0)

\* A complete, well-formed record: all chunks of one json.dump, in order.
Complete(content) ==
    /\ Len(content) = RecChunks
    /\ \A i \in 1..RecChunks : content[i] = Chunk(content[1].rec, i)

\* write(2) of one chunk at file position pos (0-based); a position past the
\* end leaves a hole of NUL bytes.
WriteAt(content, pos, chunk) ==
    [i \in 1..(IF pos + 1 > Len(content) THEN pos + 1 ELSE Len(content)) |->
        IF i = pos + 1 THEN chunk
        ELSE IF i <= Len(content) THEN content[i]
        ELSE Hole]

Referenced(i, t, f, fds) == i = t \/ i = f \/ \E p \in Callers : fds[p] = i

FreeIno(t, f, fds) ==
    CHOOSE i \in Inos : ~Referenced(i, t, f, fds)
                        /\ \A j \in Inos : j < i => Referenced(j, t, f, fds)

\* Contents of inodes nothing refers to any more are released.
Collect(ino, t, f, fds) ==
    [i \in Inos |-> IF Referenced(i, t, f, fds) THEN ino[i] ELSE <<>>]

ValInit ==
    /\ archive \in Archives
    /\ \E oldFinal \in BOOLEAN, staleTemp \in BOOLEAN :
         /\ finalIno = (IF oldFinal THEN 1 ELSE 0)
         /\ tempIno = (IF staleTemp THEN 2 ELSE 0)
         /\ inodes = [i \in Inos |->
                        IF i = 1 /\ oldFinal
                        THEN [k \in 1..RecChunks |-> Chunk(OldRecord, k)]
                        ELSE IF i = 2 /\ staleTemp THEN <<StaleChunk>>
                        ELSE <<>>]
    /\ pc = [p \in Callers |-> "idle"]
    /\ output_data = [p \in Callers |-> FreshOutput]
    /\ fd = [p \in Callers |-> 0]
    /\ offset = [p \in Callers |-> 0]
    /\ site = [p \in Callers |-> "none"]
    /\ trace = [p \in Callers |-> FreshTrace]
    /\ calls = [p \in Callers |-> 0]
    /\ NumIdle

fsVars == <<inodes, tempIno, finalIno, fd, offset>>

\* run_validation, lines 110-119: the paths and the fresh output_data.
Call(p) ==
    /\ pc[p] \in {"idle", "done", "raised"}
    /\ calls[p] < MaxCalls
    /\ calls' = [calls EXCEPT ![p] = @ + 1]
    /\ output_data' = [output_data EXCEPT ![p] = FreshOutput]
    /\ trace' = [trace EXCEPT ![p] = FreshTrace]
    /\ site' = [site EXCEPT ![p] = "none"]
    /\ pc' = [pc EXCEPT ![p] = "load"]
    /\ UNCHANGED <<numVars, archive, fsVars>>

\* What lines 122-131 raise for an archive ("none": rho is loaded).
LoadError(a) ==
    IF ~a.exists THEN "FileNotFoundError"
    ELSE IF ~a.opens THEN "OSError"
    ELSE IF ~a.has_psi THEN "ValueError"
    ELSE "none"

\* lines 121-131: the existence check, the open and the load of 'final_psi'.
Load(p) ==
    /\ pc[p] = "load"
    /\ IF LoadError(archive) = "none"
       THEN /\ pc' = [pc EXCEPT ![p] = "check"]
            /\ UNCHANGED trace
       ELSE /\ pc' = [pc EXCEPT ![p] = "except"]
            /\ trace' = [trace EXCEPT ![p].raised = LoadError(archive)]
    /\ UNCHANGED <<numVars, archive, fsVars, output_data, site, calls>>

\* lines 134-139: the divergence check.  np.max of an empty array raises.
CheckDivergence(p) ==
    /\ pc[p] = "check"
    /\ LET rho == Rho(archive.psi) IN
       IF Len(rho) = 0
       THEN /\ pc' = [pc EXCEPT ![p] = "except"]
            /\ trace' = [trace EXCEPT ![p].raised = "ValueError"]
            /\ UNCHANGED <<output_data, site>>
       ELSE IF Diverged(rho)
       THEN /\ output_data' =
                 [output_data EXCEPT
                    ![p].sentinel_code = SENTINEL_DIVERGENCE,
                    ![p].validation_status = "DIVERGENCE",
                    ![p].metrics = SetMetric(@, SSE_METRIC_KEY, MaxPenalty)]
            /\ site' = [site EXCEPT ![p] = "divergence"]
            /\ pc' = [pc EXCEPT ![p] = "open"]
            /\ UNCHANGED trace
       ELSE /\ pc' = [pc EXCEPT ![p] = "hnorm"]
            /\ UNCHANGED <<output_data, site, trace>>
    /\ UNCHANGED <<numVars, archive, fsVars, calls>>

\* lines 144-148: the h-norm.
HNorm(p) ==
    /\ pc[p] = "hnorm"
    /\ trace' = [trace EXCEPT ![p].hnorm = TRUE]
    /\ pc' = [pc EXCEPT ![p] = "spectral"]
    /\ UNCHANGED <<numVars, archive, fsVars, output_data, site, calls>>

\* lines 151-154: the spectral analysis and the two metrics.  extract_rays
\* raises IndexError on a field that is not 3-D.
Spectral(p) ==
    /\ pc[p] = "spectral"
    /\ IF archive.cube
       THEN /\ output_data' =
                 [output_data EXCEPT
                    ![p].metrics =
                        SetMetric(SetMetric(@, SSE_METRIC_KEY, SseValue),
                                  STABILITY_METRIC_KEY,
                                  IF archive.has_g THEN VarValue ELSE 0)]
            /\ trace' = [trace EXCEPT ![p].sse = TRUE]
            /\ site' = [site EXCEPT ![p] = "final"]
            /\ pc' = [pc EXCEPT ![p] = "open"]
       ELSE /\ trace' = [trace EXCEPT ![p].sse = TRUE, ![p].raised = "IndexError"]
            /\ pc' = [pc EXCEPT ![p] = "except"]
            /\ UNCHANGED <<output_data, site>>
    /\ UNCHANGED <<numVars, archive, fsVars, calls>>

\* lines 156-161: the handler, which falls through to line 163.
HandlerWithoutTrace(out) ==
    [out EXCEPT !.sentinel_code = SENTINEL_FAILURE,
                !.validation_status = "CRASH",
                !.error = TRUE]

Handler(out) ==
    [out EXCEPT !.sentinel_code = SENTINEL_FAILURE,
                !.validation_status = "CRASH",
                !.error = TRUE,
                !.traceback = TRUE]

Except(p) ==
    /\ pc[p] = "except"
    /\ output_data' = [output_data EXCEPT ![p] = Handler(@)]
    /\ site' = [site EXCEPT ![p] = "final"]
    /\ pc' = [pc EXCEPT ![p] = "open"]
    /\ UNCHANGED <<numVars, archive, fsVars, trace, calls>>

\* atomic_write_provenance, lines 39-40: open(temp_path, 'w') creates the
\* file or truncates the one the path names.
AtomicOpen(p) ==
    /\ pc[p] = "open"
    /\ LET ino == IF tempIno = 0 THEN FreeIno(tempIno, finalIno, fd) ELSE tempIno
       IN /\ fd' = [fd EXCEPT ![p] = ino]
          /\ tempIno' = ino
          /\ inodes' = [inodes EXCEPT ![ino] = <<>>]
    /\ UNCHANGED finalIno
    /\ offset' = [offset EXCEPT ![p] = 0]
    /\ pc' = [pc EXCEPT ![p] = "dump"]
    /\ UNCHANGED <<numVars, archive, output_data, site, trace, calls>>

\* The with block of lines 40-41 ends, closing f, once json.dump has
\* returned and the n chunks written are the whole record.
FlushedEarly(n) == n >= 1

Flushed(n) == n = RecChunks

\* line 41: json.dump reaches the file in RecChunks writes, the last one
\* when the with block closes f.
AtomicDump(p) ==
    /\ pc[p] = "dump"
    /\ inodes' = [inodes EXCEPT
                    ![fd[p]] = WriteAt(@, offset[p], Chunk(output_data[p], offset[p] + 1))]
    /\ offset' = [offset EXCEPT ![p] = @ + 1]
    /\ IF Flushed(offset[p] + 1)
       THEN /\ pc' = [pc EXCEPT ![p] = "replace"]
            /\ fd' = [fd EXCEPT ![p] = 0]
       ELSE UNCHANGED <<pc, fd>>
    /\ UNCHANGED <<numVars, archive, tempIno, finalIno, output_data, site, trace, calls>>

\* line 42: os.replace(temp_path, filepath).  It raises FileNotFoundError
\* when temp_path names no file; raised from line 138 the handler catches
\* it, raised from line 163 it leaves run_validation.
AtomicReplace(p) ==
    /\ pc[p] = "replace"
    /\ IF tempIno # 0
       THEN /\ finalIno' = tempIno
            /\ tempIno' = 0
            /\ inodes' = Collect(inodes, 0, tempIno, fd)
            /\ trace' = [trace EXCEPT ![p].writes = @ + 1]
            /\ pc' = [pc EXCEPT ![p] = "done"]
       ELSE /\ trace' = [trace EXCEPT ![p].raised = "FileNotFoundError"]
            /\ pc' = [pc EXCEPT ![p] = IF site[p] = "divergence" THEN "except" ELSE "raised"]
            /\ UNCHANGED <<inodes, tempIno, finalIno>>
    /\ UNCHANGED <<numVars, archive, fd, offset, output_data, site, calls>>

Step(p) ==
    \/ Call(p)
    \/ Load(p)
    \/ CheckDivergence(p)
    \/ HNorm(p)
    \/ Spectral(p)
    \/ Except(p)
    \/ AtomicOpen(p)
    \/ AtomicDump(p)
    \/ AtomicReplace(p)

\* One caller at a time: calls of run_validation follow one another.
NextVal == Step(1)

SpecVal == ValInit /\ [][NextVal]_vars

\* Two callers validate the same job concurrently.
NextConc == \E p \in Callers : Step(p)

SpecConc == ValInit /\ [][NextConc]_vars

(***************************************************************************)
(* Part II.  solver_sdg.py                                                 *)
(*                                                                         *)
(* Floats are modelled as exact rationals plus NaN, +Inf and -Inf, with    *)
(* the IEEE rules for the special values; rounding and overflow of finite  *)
(* results are not modelled.  Integers of arbitrary size are sequences of  *)
(* limbs, so that 50 sweeps can be followed exactly.                       *)
(***************************************************************************)

\* ---- integers of arbitrary size: sign and magnitude, little-endian limbs ----
Base == 10 * 10 * 10

Limb(a, i) == IF i <= Len(a) THEN a[i] ELSE 0

\* without the most significant zero limbs
Trim(a) ==
    LET nz == {i \in 1..Len(a) : a[i] # 0}
    IN IF nz = {} THEN <<>>
       ELSE SubSeq(a, 1, CHOOSE i \in nz : \A j \in nz : j <= i)

MagAdd(a, b) ==
    LET n == IF Len(a) > Len(b) THEN Len(a) ELSE Len(b)
        s == SubSeq([i \in 1..n |-> Limb(a, i) + Limb(b, i)], 1, n)
        carry(i) ==
            IF i = 1 THEN FALSE
            ELSE IF s[i - 1] # Base - 1 THEN s[i - 1] >= Base
            ELSE \E j \in 1..(i - 2) :
                    s[j] >= Base /\ \A k \in (j + 1)..(i - 2) : s[k] = Base - 1
    IN Trim([i \in 1..(n + 1) |->
                ((IF i <= n THEN s[i] ELSE 0) + (IF carry(i) THEN 1 ELSE 0)) % Base])

\* a - b for a >= b
MagSub(a, b) ==
    LET n == Len(a)
        d == SubSeq([i \in 1..n |-> a[i] - Limb(b, i)], 1, n)
        borrow(i) ==
            IF i = 1 THEN FALSE
            ELSE IF d[i - 1] # 0 THEN d[i - 1] < 0
            ELSE \E j \in 1..(i - 2) :
                    d[j] < 0 /\ \A k \in (j + 1)..(i - 2) : d[k] = 0
    IN Trim([i \in 1..n |-> (d[i] - (IF borrow(i) THEN 1 ELSE 0) + Base) % Base])

MagCmp(a, b) ==
    IF Len(a) < Len(b) THEN -1
    ELSE IF Len(a) > Len(b) THEN 1
    ELSE LET diff == {i \in 1..Len(a) : a[i] # b[i]}
         IN IF diff = {} THEN 0
            ELSE LET top == CHOOSE i \in diff : \A j \in diff : j <= i
                 IN IF a[top] < b[top] THEN -1 ELSE 1

\* the sum of the values of f, all >= 0 (a bag must count at least 1)
SumOf(f) == BagCardinality([i \in DOMAIN f |-> f[i] + 1]) - Cardinality(DOMAIN f)

\* a with k zero limbs below it
Shift(a, k) == [i \in 1..(Len(a) + k) |-> IF i <= k THEN 0 ELSE a[i - k]]

\* a * c for one limb c
MagMulLimb(a, c) ==
    MagAdd([i \in 1..Len(a) |-> (a[i] * c) % Base],
           Shift([i \in 1..Len(a) |-> (a[i] * c) \div Base], 1))

\* Long multiplication: column k sums the products a[i] * b[k + 1 - i]; the
\* columns, below 2^31, are split into their digits, which are added up.
MagMul(a, b) ==
    IF Len(a) = 0 \/ Len(b) = 0 THEN <<>>
    ELSE IF Len(b) = 1 THEN MagMulLimb(a, b[1])
    ELSE IF Len(a) = 1 THEN MagMulLimb(b, a[1])
    ELSE LET n == Len(a)
             m == Len(b)
             col == SubSeq([k \in 1..(n + m - 1) |->
                              SumOf([i \in (IF k > m THEN k + 1 - m ELSE 1)..(IF k < n THEN k ELSE n)
                                       |-> a[i] * b[k + 1 - i]])], 1, n + m - 1)
             digit(j) == [k \in 1..(n + m - 1) |-> (col[k] \div (Base ^ j)) % Base]
         IN MagAdd(MagAdd(digit(0), Shift(digit(1), 1)),
                   MagAdd(Shift(digit(2), 2), Shift(digit(3), 3)))

\* a / c for a divisor c of Base that divides a
MagDivExact(a, c) ==
    Trim([i \in 1..Len(a) |-> (a[i] \div c) + (Limb(a, i + 1) % c) * (Base \div c)])

MagDivisible(a, c) == Len(a) = 0 \/ a[1] % c = 0

\* the integer n, |n| < 2^31
Big(n) ==
    LET m == IF n < 0 THEN -n ELSE n
    IN [neg |-> n < 0,
        mag |-> Trim(<<m % Base, (m \div Base) % Base, (m \div (Base * Base)) % Base,
                       m \div (Base * Base * Base)>>)]

BZero == Big(0)
BOne == Big(1)
BSign(a) == IF Len(a.mag) = 0 THEN 0 ELSE IF a.neg THEN -1 ELSE 1
BNeg(a) == IF Len(a.mag) = 0 THEN a ELSE [neg |-> ~a.neg, mag |-> a.mag]

BAdd(a, b) ==
    IF a.neg = b.neg THEN [neg |-> a.neg, mag |-> MagAdd(a.mag, b.mag)]
    ELSE LET c == MagCmp(a.mag, b.mag)
         IN IF c = 0 THEN BZero
            ELSE IF c > 0 THEN [neg |-> a.neg, mag |-> MagSub(a.mag, b.mag)]
            ELSE [neg |-> b.neg, mag |-> MagSub(b.mag, a.mag)]

BSub(a, b) == BAdd(a, BNeg(b))

BMul(a, b) ==
    LET m == MagMul(a.mag, b.mag)
    IN [neg |-> Len(m) > 0 /\ a.neg # b.neg, mag |-> m]

\* -1, 0 or 1 as a < b, a = b, a > b
BCmp(a, b) == BSign(BSub(a, b))

\* ---- floats: a finite rational n / d with d > 0, or a special value ----
Rat(n, d) == [k |-> "fin", n |-> n, d |-> d]
RNaN == [k |-> "nan", n |-> BZero, d |-> BOne]
RPInf == [k |-> "pinf", n |-> BZero, d |-> BOne]
RNInf == [k |-> "ninf", n |-> BZero, d |-> BOne]

ReduceBy == <<Base, 125, 8, 10, 5, 2>>

\* n / d with the common factors 2 and 5 of n and d removed
RECURSIVE Reduce(_, _)
Reduce(n, d) ==
    IF Len(n.mag) = 0 THEN Rat(BZero, BOne)
    ELSE LET cs == {i \in 1..Len(ReduceBy) :
                      MagDivisible(n.mag, ReduceBy[i]) /\ MagDivisible(d.mag, ReduceBy[i])}
         IN IF cs = {} THEN Rat(n, d)
            ELSE LET c == ReduceBy[CHOOSE i \in cs : \A j \in cs : i <= j]
                 IN Reduce([neg |-> n.neg, mag |-> MagDivExact(n.mag, c)],
                           [neg |-> FALSE, mag |-> MagDivExact(d.mag, c)])

\* the float p / q for integers p and q > 0
R(p, q) == Reduce(Big(p), Big(q))

RZero == R(0, 1)
ROne == R(1, 1)

RSign(a) == IF a.k = "pinf" THEN 1 ELSE IF a.k = "ninf" THEN -1 ELSE BSign(a.n)
InfOfSign(sg) == IF sg > 0 THEN RPInf ELSE RNInf

RNeg(a) ==
    IF a.k = "fin" THEN Rat(BNeg(a.n), a.d)
    ELSE IF a.k = "pinf" THEN RNInf
    ELSE IF a.k = "ninf" THEN RPInf
    ELSE RNaN

RAdd(a, b) ==
    IF a.k = "nan" \/ b.k = "nan" THEN RNaN
    ELSE IF a.k = "fin" /\ b.k = "fin"
    THEN Reduce(BAdd(BMul(a.n, b.d), BMul(b.n, a.d)), BMul(a.d, b.d))
    ELSE IF a.k = "fin" THEN b
    ELSE IF b.k = "fin" THEN a
    ELSE IF a.k = b.k THEN a
    ELSE RNaN

RSub(a, b) == RAdd(a, RNeg(b))

RMul(a, b) ==
    IF a.k = "nan" \/ b.k = "nan" THEN RNaN
    ELSE IF a.k = "fin" /\ b.k = "fin"
    THEN Reduce(BMul(a.n, b.n), BMul(a.d, b.d))
    ELSE IF RSign(a) = 0 \/ RSign(b) = 0 THEN RNaN
    ELSE InfOfSign(RSign(a) * RSign(b))

\* 1 / a; 1 / 0 is +Inf (the zero of the model has no sign)
RInv(a) ==
    IF a.k = "nan" THEN RNaN
    ELSE IF a.k # "fin" THEN RZero
    ELSE IF BSign(a.n) = 0 THEN RPInf
    ELSE Reduce([neg |-> a.n.neg, mag |-> a.d.mag], [neg |-> FALSE, mag |-> a.n.mag])

RDiv(a, b) ==
    IF b.k = "fin" /\ BSign(b.n) = 0
    THEN IF a.k = "nan" \/ RSign(a) = 0 THEN RNaN ELSE InfOfSign(RSign(a))
    ELSE IF a.k \in {"pinf", "ninf"} /\ b.k \in {"pinf", "ninf"} THEN RNaN
    ELSE RMul(a, RInv(b))

\* a <= b as floats: false when either is NaN
RLe(a, b) ==
    IF a.k = "nan" \/ b.k = "nan" THEN FALSE
    ELSE IF a.k = "ninf" \/ b.k = "pinf" THEN TRUE
    ELSE IF a.k = "pinf" \/ b.k = "ninf" THEN FALSE
    ELSE BCmp(BMul(a.n, b.d), BMul(b.n, a.d)) <= 0

\* jnp.maximum: NaN propagates
RMax(a, b) ==
    IF a.k = "nan" \/ b.k = "nan" THEN RNaN
    ELSE IF RLe(a, b) THEN b ELSE a

\* a ** k for an exponent k in 0, 1, 2, ...; pow(a, 0) is 1 for every a
RECURSIVE RPow(_, _)
RPow(a, k) == IF k = 0 THEN ROne ELSE RMul(a, RPow(a, k - 1))

\* the square root of a perfect square below Base
NatSqrt(m) == CHOOSE r \in 0..m : r * r = m

NatOf(b) == IF Len(b.mag) = 0 THEN 0 ELSE b.mag[1]

\* jnp.sqrt, for the squares of rationals the model's fields produce
RSqrt(a) ==
    IF a.k = "nan" \/ a.k = "ninf" THEN RNaN
    ELSE IF a.k = "pinf" THEN RPInf
    ELSE IF BSign(a.n) < 0 THEN RNaN
    ELSE R(NatSqrt(NatOf(a.n)), NatSqrt(NatOf(a.d)))

\* ---- grids ----
GridN == 3          \* cells along each of the two periodic axes

Axis == 0..(GridN - 1)
Cells == Axis \X Axis

\* jnp.roll(a, shift, axis)[c]: the cell shift places before c along axis
Rolled(c, shift, axis) ==
    IF axis = 0 THEN <<(c[1] - shift + GridN) % GridN, c[2]>>
    ELSE <<c[1], (c[2] - shift + GridN) % GridN>>

\* A scaled grid: every finite cell v[c] is the rational v[c].n / d.
SVal(k, n) == [k |-> k, n |-> n]
SFin(n) == SVal("fin", n)
SNaN == SVal("nan", BZero)
SPInf == SVal("pinf", BZero)
SNInf == SVal("ninf", BZero)
SGrid(d, v) == [d |-> d, v |-> v]

\* the float a cell of a scaled grid holds
CellOf(g, c) ==
    IF g.v[c].k = "fin" THEN Reduce(g.v[c].n, g.d)
    ELSE [k |-> g.v[c].k, n |-> BZero, d |-> BOne]

SvAdd(a, b) ==
    IF a.k = "nan" \/ b.k = "nan" THEN SNaN
    ELSE IF a.k = "fin" /\ b.k = "fin" THEN SFin(BAdd(a.n, b.n))
    ELSE IF a.k = "fin" THEN b
    ELSE IF b.k = "fin" THEN a
    ELSE IF a.k = b.k THEN a
    ELSE SNaN

\* c * a for an integer c
SvScale(c, a) ==
    IF a.k = "nan" THEN SNaN
    ELSE IF a.k = "fin" THEN SFin(BMul(Big(c), a.n))
    ELSE IF c = 0 THEN SNaN
    ELSE IF (c > 0) = (a.k = "pinf") THEN SPInf ELSE SNInf

\* the cells of a scaled grid over the denominator d * f, f a positive integer
Rescaled(g, f) == SGrid(BMul(g.d, f), [c \in Cells |-> IF g.v[c].k = "fin" THEN SFin(BMul(g.v[c].n, f)) ELSE g.v[c]])

\* a grid of floats as a scaled grid over the product of its denominators
RECURSIVE BProduct(_)
BProduct(S) ==
    IF S = {} THEN BOne
    ELSE LET e == CHOOSE e \in S : TRUE IN BMul(e, BProduct(S \ {e}))

Scaled(grid) ==
    LET dens == {grid[c].d : c \in {cc \in Cells : grid[cc].k = "fin"}}
    IN SGrid(BProduct(dens),
             [c \in Cells |->
                IF grid[c].k = "fin"
                THEN SFin(BMul(grid[c].n, BProduct(dens \ {grid[c].d})))
                ELSE SVal(grid[c].k, BZero)])

\* ---- _jacobi_poisson_solver, lines 16-27 ----
\* the literals of line 69: 50 iterations, omega = 1.8 = 9 / 5
Iterations == 50
OmegaNum == 9
OmegaDen == 5

\* One pass of the loop body, lines 21-26, for x and source over one
\* denominator d and dx = 1 / res:
\*   x_new = (roll(x,1,0) + roll(x,-1,0) + roll(x,1,1) + roll(x,-1,1)
\*            + source * dx * dx) / 4.0
\*   x = (1.0 - omega) * x + omega * x_new
\* put over the denominator d * (4 * res^2 * oden), so that
\*   n' = (oden - onum) * 4 * res^2 * n
\*        + onum * (res^2 * (the four rolled n) + the source's n)
SweepFactor(res, oden) == 4 * res * res * oden

\* three of the four rolls
NeighbourSumThree(v, c) ==
    SvAdd(SvAdd(v[Rolled(c, 1, 0)], v[Rolled(c, -1, 0)]), v[Rolled(c, 1, 1)])

NeighbourSum(v, c) ==
    SvAdd(SvAdd(SvAdd(v[Rolled(c, 1, 0)], v[Rolled(c, -1, 0)]), v[Rolled(c, 1, 1)]),
          v[Rolled(c, -1, 1)])

SweepCell(srcv, v, c, res, onum, oden) ==
    SvAdd(SvScale((oden - onum) * 4 * res * res, v[c]),
          SvScale(onum, SvAdd(SvScale(res * res, NeighbourSum(v, c)), srcv[c])))

JacobiSweep(src, xg, res, onum, oden) ==
    SGrid(BMul(xg.d, Big(SweepFactor(res, oden))),
          [c \in Cells |-> SweepCell(src.v, xg.v, c, res, onum, oden)])

\* the loop of line 20 goes on while passes remain, whatever x holds
LoopExitsOnNaN(k, iterations, xg) ==
    k < iterations /\ \A c \in Cells : xg.v[c].k # "nan"

LoopContinues(k, iterations, xg) == k < iterations

\* ---- solve_sdg_geometry, lines 64-76 ----
\* the clip floor 1e-6 of line 70
ClipFloorDen == 1000 * 1000

\* jnp.clip(v, 1e-6, None) of one cell n / d, over the denominator
\* d * ClipFloorDen: the larger of the cell and the floor; NaN stays NaN.
NoClip(a, d) ==
    IF a.k = "fin" THEN SFin(BMul(a.n, Big(ClipFloorDen))) ELSE a

ClipCell(a, d) ==
    IF a.k = "nan" THEN SNaN
    ELSE IF a.k = "pinf" THEN SPInf
    ELSE IF a.k = "ninf" THEN SFin(d)
    ELSE LET n == BMul(a.n, Big(ClipFloorDen))
         IN IF BCmp(n, d) >= 0 THEN SFin(n) ELSE SFin(d)

Clip(xg) ==
    SGrid(BMul(xg.d, Big(ClipFloorDen)), [c \in Cells |-> ClipCell(xg.v[c], xg.d)])

\* eta = jnp.diag([-1.0, 1.0, 1.0, 1.0]), line 72
Eta(a, b) == IF a # b THEN RZero ELSE IF a = 0 THEN R(-1, 1) ELSE ROne

\* scale = (rho_vac / rho_s_new) ** alpha, line 73: an array, so the
\* function is taken with its values (@@ the empty function), not as a rule
Scale(rho, alpha, rho_vac) ==
    [c \in Cells |-> RPow(RDiv(rho_vac, CellOf(rho, c)), alpha)] @@ <<>>

\* g_mu_nu = einsum('ab,xy->abxy', eta, scale), line 74
Metric(scale) ==
    [a \in 0..3 |-> [b \in 0..3 |-> [c \in Cells |-> RMul(Eta(a, b), scale[c])]]]

\* ---- inputs of the solver ----
MaxRes == 2         \* spatial_res ranges over 1..MaxRes
MaxAlpha == 1       \* alpha ranges over 0..MaxAlpha
MaxSteps == 2       \* calls of solve_sdg_geometry in a row

Origin == <<0, 0>>

\* initial densities, over the denominator 1
GuessNames == {"vac", "zero", "bump", "neg", "nan", "inf"}

Guess(name) ==
    SGrid(BOne,
          [c \in Cells |->
             IF name = "vac" THEN SFin(BOne)
             ELSE IF name = "zero" THEN SFin(BZero)
             ELSE IF c # Origin THEN SFin(BOne)
             ELSE IF name = "bump" THEN SFin(Big(3))
             ELSE IF name = "neg" THEN SFin(Big(-2))
             ELSE IF name = "nan" THEN SNaN
             ELSE SPInf])

\* sources T_00
SourceNames == {"zero", "delta", "nan"}

SourceGrid(name) ==
    [c \in Cells |->
       IF name = "zero" \/ c # Origin THEN RZero
       ELSE IF name = "delta" THEN R(1, 2)
       ELSE RNaN]

SolveParams ==
    [spatial_res : 1..MaxRes, alpha : 0..MaxAlpha, rho_vac : {1}]

\* the validation pipeline is not running (Part II)
ValIdle ==
    /\ archive = <<>>
    /\ inodes = [i \in Inos |-> <<>>]
    /\ tempIno = 0
    /\ finalIno = 0
    /\ pc = [p \in Callers |-> "idle"]
    /\ output_data = [p \in Callers |-> FreshOutput]
    /\ fd = [p \in Callers |-> 0]
    /\ offset = [p \in Callers |-> 0]
    /\ site = [p \in Callers |-> "none"]
    /\ trace = [p \in Callers |-> FreshTrace]
    /\ calls = [p \in Callers |-> 0]

SolveInit ==
    /\ ValIdle
    /\ stage = "ready"
    /\ Psi = <<>>
    /\ params \in SolveParams
    /\ T_info \in {SourceGrid(s) : s \in SourceNames}
    /\ rho_s \in {Guess(g) : g \in GuessNames}
    /\ x = <<>>
    /\ source = <<>>
    /\ sweeps = 0
    /\ g_mu_nu = <<>>
    /\ work = <<>>
    /\ increment = <<>>
    /\ steps = 0

\* solve_sdg_geometry, lines 64-69: T_00 and rho_s go to
\* _jacobi_poisson_solver with iterations = 50 and omega = 1.8; lines 16-19.
SolveEnter ==
    /\ stage = "ready"
    /\ LET t == Scaled(T_info)
       IN /\ x' = Rescaled(rho_s, t.d)
          /\ source' = Rescaled(t, rho_s.d)
    /\ sweeps' = 0
    /\ work' = [iterations |-> Iterations, omega |-> <<OmegaNum, OmegaDen>>]
    /\ stage' = "sweep"
    /\ UNCHANGED <<valVars, Psi, params, T_info, rho_s, g_mu_nu, increment, steps>>

\* one pass of the loop, lines 20-26
Sweep ==
    /\ stage = "sweep"
    /\ LoopContinues(sweeps, work.iterations, x)
    /\ x' = JacobiSweep(source, x, params.spatial_res, work.omega[1], work.omega[2])
    /\ source' = Rescaled(source, Big(SweepFactor(params.spatial_res, work.omega[2])))
    /\ sweeps' = sweeps + 1
    /\ UNCHANGED <<valVars, stage, Psi, params, T_info, rho_s, g_mu_nu, work,
                   increment, steps>>

\* the loop is over: line 27 returns x; lines 70-76 clip it, build scale
\* (kept in work) and the metric, and return rho_s_new and g_mu_nu.
SolveFinish ==
    /\ stage = "sweep"
    /\ ~LoopContinues(sweeps, work.iterations, x)
    /\ rho_s' = Clip(x)
    /\ work' = Scale(rho_s', params.alpha, R(params.rho_vac, 1))
    /\ g_mu_nu' = Metric(work')
    /\ stage' = "solved"
    /\ steps' = steps + 1
    /\ UNCHANGED <<valVars, Psi, params, T_info, x, source, sweeps, increment>>

\* The caller passes the returned rho_s_new as rho_s of the next call
\* (warm start), with the source of the next step.
Feedback ==
    /\ stage = "solved"
    /\ steps < MaxSteps
    /\ T_info' \in {SourceGrid(s) : s \in SourceNames}
    /\ stage' = "ready"
    /\ UNCHANGED <<valVars, Psi, params, rho_s, x, source, sweeps, g_mu_nu, work,
                   increment, steps>>

NextSolve == SolveEnter \/ Sweep \/ SolveFinish \/ Feedback

SpecSolve == SolveInit /\ [][NextSolve]_vars

\* ---- calculate_informational_stress_energy, lines 45-61 ----
\* A field is [re |-> grid, im |-> grid]; the fields of the model are real and
\* positive, the values on which jnp.angle and jnp.sqrt are rational.

\* jnp.abs(Psi) ** 2, line 47
AbsSq(P) == [c \in Cells |-> RAdd(RMul(P.re[c], P.re[c]), RMul(P.im[c], P.im[c]))]

\* jnp.angle(Psi), line 48, of a cell on the non-negative real axis
Angle(P) ==
    [c \in Cells |->
       CASE P.re[c].k = "nan" \/ P.im[c].k = "nan" -> RNaN
         [] P.im[c] = RZero /\ P.re[c].k = "fin" /\ RSign(P.re[c]) >= 0 -> RZero]

\* the floor 1e-9 of line 51
RhoFloor == R(1, 1000 * 1000 * 1000)

\* jnp.gradient(f, h, axis=axis): second-order central differences in the
\* interior, first-order one-sided differences on the first and the last
\* index of the axis (numpy's edge_order = 1); nothing wraps around.
Gradient(f, h, axis) ==
    [c \in Cells |->
       LET i == c[axis + 1]
           lo == IF i = 0 THEN 0 ELSE i - 1
           hi == IF i = GridN - 1 THEN i ELSE i + 1
           at(j) == f[IF axis = 0 THEN <<j, c[2]>> ELSE <<c[1], j>>]
       IN RDiv(RSub(at(hi), at(lo)), RMul(R(hi - lo, 1), h))]

Sq(a) == RMul(a, a)

\* jnp.sqrt(jnp.maximum(rho, 1e-9)), line 51
Amplitude(P) == [c \in Cells |-> RSqrt(RMax(AbsSq(P)[c], RhoFloor))]

\* the arrays of lines 48-51
StressArrays(P) ==
    [phi |-> Angle(P), amp |-> Amplitude(P),
     grad_phi_y |-> Gradient(Angle(P), ROne, 0),
     grad_phi_x |-> Gradient(Angle(P), ROne, 1),
     grad_rho_y |-> Gradient(Amplitude(P), ROne, 0),
     grad_rho_x |-> Gradient(Amplitude(P), ROne, 1)]

\* T_00 of lines 53-54, from rho and the arrays w of lines 48-51
T00(rho, w, sdg_kappa, sdg_eta) ==
    [c \in Cells |->
       RAdd(RMul(RMul(sdg_kappa, rho[c]), RAdd(Sq(w.grad_phi_x[c]), Sq(w.grad_phi_y[c]))),
            RMul(sdg_eta, RAdd(Sq(w.grad_rho_x[c]), Sq(w.grad_rho_y[c]))))]

\* ---- inputs of the pipeline ----
MaxEta == 2         \* sdg_eta ranges over 1..MaxEta
MaxRhoVac == 2      \* rho_vac ranges over 1..MaxRhoVac

FieldNames == {"one", "two", "bump", "ramp"}

Field(name) ==
    [re |-> [c \in Cells |->
               IF name = "one" THEN ROne
               ELSE IF name = "two" THEN R(2, 1)
               ELSE IF name = "bump" THEN (IF c = Origin THEN R(2, 1) ELSE ROne)
               ELSE R(1 + c[1], 1)],
     im |-> [c \in Cells |-> RZero]]

PipeGuessNames == {"vacuum", "bump"}

PipeGuess(name, rho_vac) ==
    SGrid(BOne, [c \in Cells |->
                   IF name = "bump" /\ c = Origin THEN SFin(Big(rho_vac + 2))
                   ELSE SFin(Big(rho_vac))])

PipeParams ==
    [sdg_kappa : {1}, sdg_eta : 1..MaxEta, spatial_res : 1..MaxRes,
     alpha : 0..MaxAlpha, rho_vac : 1..MaxRhoVac, epsilon : {1},
     guess : PipeGuessNames]

PipeInit ==
    /\ ValIdle
    /\ stage = "field"
    /\ Psi \in {Field(f) : f \in FieldNames}
    /\ params \in PipeParams
    /\ T_info = <<>>
    /\ rho_s = PipeGuess(params.guess, params.rho_vac)
    /\ x = <<>>
    /\ source = <<>>
    /\ sweeps = 0
    /\ g_mu_nu = <<>>
    /\ work = <<>>
    /\ increment = <<>>
    /\ steps = 0

\* calculate_informational_stress_energy(Psi, sdg_kappa, sdg_eta): T_info
\* holds T_00 in component [0, 0], the only one that is not zero.
Stress ==
    /\ stage = "field"
    /\ work' = StressArrays(Psi)
    /\ T_info' = T00(AbsSq(Psi), work', R(params.sdg_kappa, 1), R(params.sdg_eta, 1))
    /\ stage' = "ready"
    /\ UNCHANGED <<valVars, Psi, params, rho_s, x, source, sweeps, g_mu_nu,
                   increment, steps>>

\* apply_complex_diffusion, lines 78-95.  The grid of lines 90-93 is stacked
\* from jnp.arange of integers, so its dtype is an integer one; jax.jacfwd
\* accepts floating inputs only and raises TypeError at line 95, while the
\* function is traced.  Lines 96-134 are never reached and no increment is
\* returned, whatever Psi, epsilon and g_mu_nu are.
Diffuse ==
    /\ stage = "solved"
    /\ stage' = "raised"
    /\ UNCHANGED <<valVars, Psi, params, T_info, rho_s, x, source, sweeps, g_mu_nu,
                   work, increment, steps>>

NextPipe == Stress \/ SolveEnter \/ Sweep \/ SolveFinish \/ Diffuse

SpecPipe == PipeInit /\ [][NextPipe]_vars

(***************************************************************************)
(* Properties of the validation pipeline                                   *)
(***************************************************************************)

\* The record a finished call of caller p holds in output_data, as a file.
FileOf(rec) == [k \in 1..RecChunks |-> Chunk(rec, k)]

FinalHolds(rec) == finalIno # 0 /\ inodes[finalIno] = FileOf(rec)

FinalNeverPartial == finalIno # 0 => Complete(inodes[finalIno])

\* A step that changes what the final path names is the rename of a fully
\* written temp file.
RenameOfComplete ==
    (finalIno' # finalIno \/ (finalIno # 0 /\ inodes'[finalIno] # inodes[finalIno]))
        => /\ tempIno # 0
           /\ finalIno' = tempIno
           /\ Complete(inodes[tempIno])
           /\ inodes'[finalIno'] = inodes[tempIno]

\* C1: whichever path a call of run_validation takes, no exception leaves
\* it, at its end the provenance file holds the complete record of the
\* call, and at no point does the final path hold a partial record: what
\* the path names changes only by the rename of a fully written temp file.
C1_ProvenanceAlwaysComplete ==
    /\ [](/\ FinalNeverPartial
          /\ pc[1] # "raised"
          /\ pc[1] = "done" => FinalHolds(output_data[1]))
    /\ [][RenameOfComplete]_vars

\* C1 witness: a call on a missing archive has ended, over an older record
\* and a stale temp file, and its CRASH record is in place.
C1_Witness ==
    /\ pc[1] = "done"
    /\ ~archive.exists
    /\ calls[1] = MaxCalls
    /\ FinalHolds(output_data[1])
    /\ output_data[1].validation_status = "CRASH"

\* The loaded density has a non-finite cell or a cell above 1e6.
DensityDiverges(a) ==
    /\ a.exists /\ a.opens /\ a.has_psi
    /\ \E i \in 1..Len(a.psi) :
          \/ a.psi[i].k # "fin"
          \/ a.psi[i].v * a.psi[i].v > 1000000

DivergenceRecord ==
    [FreshOutput EXCEPT !.validation_status = "DIVERGENCE",
                        !.sentinel_code = SENTINEL_DIVERGENCE,
                        !.metrics = (SSE_METRIC_KEY :> 1000)]

\* C3: when the loaded density has a non-finite cell or a cell above 1e6,
\* the call never computes the h-norm or the spectral analysis, and at its
\* end the record in place is the DIVERGENCE record (divergence sentinel,
\* spectral-fidelity metric 1000.0 and nothing else), written once.
C3_DivergenceRecord ==
    DensityDiverges(archive) =>
        /\ ~trace[1].hnorm /\ ~trace[1].sse
        /\ pc[1] \notin {"hnorm", "spectral", "except", "raised"}
        /\ pc[1] = "done" =>
              /\ FinalHolds(DivergenceRecord)
              /\ output_data[1] = DivergenceRecord
              /\ trace[1].writes = 1

\* C3 witness: a call on a field with a NaN cell has ended.
C3_Witness ==
    /\ pc[1] = "done"
    /\ archive.has_psi
    /\ \E i \in 1..Len(archive.psi) : archive.psi[i] = NaN
    /\ FinalHolds(DivergenceRecord)

CrashRecord ==
    [FreshOutput EXCEPT !.validation_status = "CRASH",
                        !.sentinel_code = SENTINEL_FAILURE,
                        !.error = TRUE,
                        !.traceback = TRUE]

\* C4: when the archive has no 'final_psi' entry, or any other exception
\* was raised during load or analysis, the record in place at the end of
\* the call is the CRASH record: failure sentinel, error message, trace,
\* and an empty metrics mapping.
C4_CrashRecord ==
    /\ (archive.exists /\ archive.opens /\ ~archive.has_psi /\ pc[1] \notin {"idle", "load"})
          => trace[1].raised = "ValueError"
    /\ (pc[1] = "done" /\ trace[1].raised # "none")
          => /\ FinalHolds(CrashRecord)
             /\ output_data[1].metrics = NoMetrics
             /\ DOMAIN output_data[1].metrics = {}

\* C4 witness: a call on an archive without 'final_psi' has ended.
C4_Witness ==
    /\ pc[1] = "done"
    /\ archive.exists /\ archive.opens /\ ~archive.has_psi
    /\ FinalHolds(CrashRecord)

\* C4 witness of the other kind: the analysis itself raised.
C4_WitnessAnalysis ==
    /\ pc[1] = "done"
    /\ trace[1].sse
    /\ trace[1].raised = "IndexError"
    /\ FinalHolds(CrashRecord)

Ended(p) == pc[p] \in {"done", "raised"} /\ calls[p] >= 1

\* C10: with the two calls of one job interleaved, the final path only ever
\* holds a complete record, and once both calls have ended the file
\* exists with a complete record.
C10_ConcurrentComplete ==
    /\ FinalNeverPartial
    /\ (Ended(1) /\ Ended(2)) => (finalIno # 0 /\ Complete(inodes[finalIno]))


(***************************************************************************)
(* Properties of the geometry solver                                       *)
(***************************************************************************)

\* the same float: both NaN, the same infinity, or equal rationals
RSame(a, b) ==
    /\ a.k = b.k
    /\ a.k = "fin" => BMul(a.n, b.d) = BMul(b.n, a.d)

RECURSIVE SvSum(_, _)
SvSum(v, S) ==
    IF S = {} THEN SFin(BZero)
    ELSE LET c == CHOOSE c \in S : TRUE IN SvAdd(v[c], SvSum(v, S \ {c}))

\* jnp.sum of a scaled grid, as a float
GridSum(g) ==
    LET s == SvSum(g.v, Cells)
    IN IF s.k = "fin" THEN Rat(s.n, g.d) ELSE [k |-> s.k, n |-> BZero, d |-> BOne]

AllFinite(g) == \A c \in Cells : g.v[c].k = "fin"
ZeroSource == \A c \in Cells : source.v[c] = SFin(BZero)
SweepTaken == stage = "sweep" /\ stage' = "sweep" /\ sweeps' = sweeps + 1

\* C9: every call of the solver makes exactly 50 sweeps with relaxation
\* factor 1.8; no state of the iterate (converged, diverged, NaN) ends the
\* loop early.
C9_FiftySweeps ==
    /\ sweeps <= 50
    /\ stage = "sweep" =>
          /\ work.iterations = 50
          /\ 5 * work.omega[1] = 9 * work.omega[2]
    /\ stage = "sweep" /\ sweeps < 50 => LoopContinues(sweeps, work.iterations, x)
    /\ stage = "solved" => sweeps = 50

\* a call went through all its sweeps on an iterate that was NaN throughout
C9_Witness ==
    /\ stage = "solved"
    /\ sweeps = 50
    /\ rho_s.v[Origin].k = "nan"
    /\ T_info[Origin].k = "nan"

AtLeastFloor(c) ==
    \/ rho_s.v[c].k = "pinf"
    \/ /\ rho_s.v[c].k = "fin"
       /\ BCmp(BMul(rho_s.v[c].n, Big(1000000)), rho_s.d) >= 0

\* the metric is eta times the scale (rho_vac / rho_s) ** alpha of the density
MetricFromDensity ==
    /\ \A c \in Cells :
          RSame(work[c],
                RPow(RDiv(R(params.rho_vac, 1), CellOf(rho_s, c)), params.alpha))
    /\ \A a \in 0..3, b \in 0..3, c \in Cells :
          RSame(g_mu_nu[a][b][c], RMul(Eta(a, b), work[c]))

\* C2 as stated: after any number of steps, whatever the inputs, every cell
\* of the density is at least 1e-6, and the metric is the one of that
\* density.
C2_EveryInput ==
    steps >= 1 =>
        /\ \A c \in Cells : AtLeastFloor(c)
        /\ stage = "solved" => MetricFromDensity

\* C2: after any number of steps every cell of the density is at least 1e-6
\* or is NaN, which it is exactly where the relaxed value is NaN; the metric
\* is the one of that density, and that density is the next warm start.
C2_ClippedDensity ==
    steps >= 1 =>
        /\ \A c \in Cells : AtLeastFloor(c) \/ rho_s.v[c].k = "nan"
        /\ stage = "solved" =>
              /\ \A c \in Cells : (rho_s.v[c].k = "nan") = (x.v[c].k = "nan")
              /\ MetricFromDensity
        /\ stage = "sweep" /\ sweeps = 0 =>
              \A c \in Cells : RSame(CellOf(x, c), CellOf(rho_s, c))

\* a second call, warm-started from a clipped density, ends with cells
\* raised to the floor next to cells above it
C2_Witness ==
    /\ stage = "solved"
    /\ steps = 2
    /\ \E c \in Cells : x.v[c].k = "fin" /\ BSign(x.v[c].n) < 0
                        /\ RSame(CellOf(rho_s, c), R(1, 1000000))
    /\ \E c \in Cells : ~RSame(CellOf(rho_s, c), R(1, 1000000)) /\ AtLeastFloor(c)

(***************************************************************************)
(* Properties of the pipeline                                              *)
(***************************************************************************)

Next1(c, axis) == Rolled(c, -1, axis)
Prev1(c, axis) == Rolled(c, 1, axis)

\* the central difference on the torus: (next - previous) / (2 * spacing)
PeriodicCentral(f, h, axis) ==
    [c \in Cells |-> RDiv(RSub(f[Next1(c, axis)], f[Prev1(c, axis)]), RMul(R(2, 1), h))]

SameGrid(f, g) == \A c \in Cells : RSame(f[c], g[c])

\* C7: the derivatives that calculate_informational_stress_energy takes of
\* the phase and of sqrt(max(rho, 1e-9)) are central differences on the
\* torus at every cell, edge cells included.
C7_PeriodicDerivatives ==
    stage = "ready" =>
        /\ SameGrid(work.grad_phi_y, PeriodicCentral(work.phi, ROne, 0))
        /\ SameGrid(work.grad_phi_x, PeriodicCentral(work.phi, ROne, 1))
        /\ SameGrid(work.grad_rho_y, PeriodicCentral(work.amp, ROne, 0))
        /\ SameGrid(work.grad_rho_x, PeriodicCentral(work.amp, ROne, 1))

DiffusionCalled == stage \in {"diffused", "raised"}
DiffusionReturned == stage = "diffused"

ConstantGrid(f, v) == \A c \in Cells : RSame(f[c], v)

\* the second central difference on the torus along both axes, summed
PeriodicLaplacian(f, h) ==
    LET dy == PeriodicCentral(f, h, 0)
        dx == PeriodicCentral(f, h, 1)
        d2y == PeriodicCentral(dy, h, 0)
        d2x == PeriodicCentral(dx, h, 1)
    IN [c \in Cells |-> RAdd(d2y[c], d2x[c])]

\* epsilon * (0.5 + 0.8i) * s * (the Laplacian of P on the torus)
FlatDiffusion(P, epsilon, s, spatial_res) ==
    LET h == R(1, spatial_res)
        lre == PeriodicLaplacian(P.re, h)
        lim == PeriodicLaplacian(P.im, h)
        a == RMul(RMul(epsilon, R(1, 2)), s)
        b == RMul(RMul(epsilon, R(4, 5)), s)
    IN [re |-> [c \in Cells |-> RSub(RMul(a, lre[c]), RMul(b, lim[c]))],
        im |-> [c \in Cells |-> RAdd(RMul(a, lim[c]), RMul(b, lre[c]))]]

SameField(P, Q) == SameGrid(P.re, Q.re) /\ SameGrid(P.im, Q.im)

FixedPointInput ==
    /\ ConstantGrid(Psi.re, ROne)
    /\ ConstantGrid(Psi.im, RZero)
    /\ params.sdg_kappa = 1
    /\ params.sdg_eta = 1
    /\ params.guess = "vacuum"

\* C6: for the field 1 + 0i everywhere with kappa = eta = 1 and the guess
\* rho_vac everywhere, T_00 is 0 in every cell, the clipped density is
\* rho_vac in every cell, the metric is diag(-1, 1, 1, 1) in every cell, and
\* the diffusion returns the flat-space increment of the field.
C6_FixedPoint ==
    FixedPointInput =>
        /\ stage # "field" => ConstantGrid(T_info, RZero)
        /\ steps >= 1 =>
              /\ \A c \in Cells : RSame(CellOf(rho_s, c), R(params.rho_vac, 1))
              /\ \A a \in 0..3, b \in 0..3 : ConstantGrid(g_mu_nu[a][b], Eta(a, b))
        /\ DiffusionCalled =>
              /\ DiffusionReturned
              /\ SameField(increment,
                           FlatDiffusion(Psi, R(params.epsilon, 1), ROne, params.spatial_res))

\* the fixed point up to the metric: what C6 says of the stress-energy, the
\* density and the metric
FixedPointUpToMetric ==
    FixedPointInput =>
        /\ stage # "field" => ConstantGrid(T_info, RZero)
        /\ steps >= 1 =>
              /\ \A c \in Cells : RSame(CellOf(rho_s, c), R(params.rho_vac, 1))
              /\ \A a \in 0..3, b \in 0..3 : ConstantGrid(g_mu_nu[a][b], Eta(a, b))

UniformBlock ==
    \A i \in 1..2, j \in 1..2, c \in Cells :
        g_mu_nu[i][j][c].k = "fin" /\ RSame(g_mu_nu[i][j][c], g_mu_nu[i][j][Origin])

\* C8: when g_ij is the same in every cell, apply_complex_diffusion returns
\* an increment, in which the Christoffel symbols, all 0, have no part: it
\* is epsilon * (0.5 + 0.8i) times the inverse-metric diagonal entry times
\* the Laplacian of the field on the torus, in every cell.
C8_FlatReduction ==
    DiffusionCalled /\ UniformBlock =>
        /\ DiffusionReturned
        /\ SameField(increment,
                     FlatDiffusion(Psi, R(params.epsilon, 1),
                                   RInv(g_mu_nu[1][1][Origin]), params.spatial_res))

====
